---- MODULE Spec2Model ----
(***************************************************************************)
(* A model of bw_authenticate_sshkeys.py: main's try/except/finally block  *)
(* (get_session, vault sync, folder_items, add_ssh_keys, lock_bitwarden).  *)
(* Every external process the script spawns is recorded, in order, in      *)
(* `cmds` together with the return code and the standard output the        *)
(* process produced; what the script prints goes to `stdout` and what it   *)
(* hands to the logging module, with its severity, goes to `log`.          *)
(* A command string is modelled as the sequence of its words, with the     *)
(* values that the string formatting substitutes kept as single words.     *)
(* Init is the state at `session = None`, after the identifier-to-path     *)
(* table has been loaded; a table that cannot be loaded ends the process   *)
(* before any of the steps modelled here.                                  *)
(***************************************************************************)
EXTENDS Naturals, Sequences, FiniteSets

\* ------------------------------------------------------------------ bounds

\* The largest number of items the vault listing returns.
MaxItems == 2

\* ------------------------------------------------------------ value domains

\* Python's None.
None == "<None>"

\* Vault item identifiers and display names; the item at position k of a
\* listing carries ItemIds[k] and ItemNames[k] (vault identifiers are unique).
ItemIds == <<"item1", "item2", "item3", "item4">>

ItemNames == <<"k1", "k2", "k3", "k4">>

\* Local private-key paths a mapping row can name.
Paths == {"/keys/id_rsa", "/keys/id_ed25519"}

\* Passphrases a vault item can hold.
Passphrases == {"secret", "x"}

\* Values of the BW_SESSION environment variable: unset, set but empty, set.
EnvSessions == {None, "", "envtoken"}

\* What `bw --raw login` / `bw --raw unlock` can print on standard output.
RawOutputs == {"", "rawtoken"}

\* Process return codes: success and failure.
ReturnCodes == {0, 1}

\* The shapes of the "login" member of a listed item:
\*   absent      the item has no "login" key
\*   null        "login": null
\*   nopassword  "login": {} (no "password" key)
\*   object      "login": {"password": <null or a string>}
Logins ==
    {[kind |-> "absent", password |-> None],
     [kind |-> "null", password |-> None],
     [kind |-> "nopassword", password |-> None],
     [kind |-> "object", password |-> None]}
    \cup {[kind |-> "object", password |-> p] : p \in Passphrases}

\* Every listing `bw list items` can decode to: at most MaxItems items.
Listings ==
    UNION {[1..n -> Logins] : n \in 0..MaxItems}

Item(k, login) == [id |-> ItemIds[k], name |-> ItemNames[k], login |-> login]

\* Every identifier-to-path table the CSV file can hold.
Mappings ==
    UNION {[S -> Paths] : S \in SUBSET {ItemIds[k] : k \in 1..MaxItems}}

\* ------------------------------------------------------------- the commands

EMAIL == "config.EMAIL"

FOLDER_ID == "config.FOLDER_ID"

BW_SHELL_CALL == <<"NODE_OPTIONS=--no-deprecation", "bw">>

LoginCheckCmd == BW_SHELL_CALL \o <<"login", "--check", "--quiet", EMAIL>>

SessionCmd(operation) == BW_SHELL_CALL \o <<"--raw", operation>>

SyncCmd(s) == BW_SHELL_CALL \o <<"sync", "--session", s>>

ListCmd(folder_id, s) ==
    BW_SHELL_CALL \o <<"list", "items", "--folderid", folder_id, "--session", s>>

LockCmd(s) == BW_SHELL_CALL \o <<"lock", "--session", s>>

SshAddCmd(passphrase, path) ==
    <<"{", "sleep", ".8;", "echo", passphrase, ";", "}", "|",
      "script", "-q", "/dev/null", "ssh-add", path>>

\* A finished process: its command line, its exit status, its standard output.
Proc(argv, rc, out) == [argv |-> argv, returncode |-> rc, stdout |-> out]

\* subprocess.CalledProcessError of a run(..., check=True); no call passes
\* stderr=PIPE, so the exception's stderr is always None.
CalledProcessError(argv) ==
    [type |-> "CalledProcessError", cmd |-> argv, stderr |-> None]

\* Any other exception.
Exception(type) == [type |-> type, cmd |-> <<>>, stderr |-> None]

NoException == Exception(None)

LogRecord(level, msg, arg) == [level |-> level, msg |-> msg, arg |-> arg]

Printed(msg, arg) == [msg |-> msg, arg |-> arg]

\* The standard output of a listing that json.loads rejects / accepts.
MalformedOutput == "not json"

JsonOutput == "[...]"

VARIABLES
    pc,         \* main's position
    env,        \* os.environ.get("BW_SESSION")
    mapping,    \* itemid_path_pair
    existing,   \* the paths for which path.exists() is true
    session,    \* main's local `session`
    items,      \* main's local `items`
    i,          \* add_ssh_keys's loop position (0: not entered)
    exc,        \* the exception in flight, or at "done" the uncaught one
    cmds,       \* the processes spawned so far
    stdout,     \* what print() wrote
    log         \* the records handed to logging

vars == <<pc, env, mapping, existing, session, items, i, exc, cmds, stdout, log>>

\* Truthy with the guard dropped: `finally` locks unconditionally.
Truthy_Always(s) == TRUE

\* `if session:`
Truthy(s) == s # None /\ s # ""

\* item["login"]["password"]: the value, or the exception the lookup raises.
GetPassphrase(item) ==
    CASE item.login.kind = "absent" -> [raised |-> "KeyError", value |-> None]
      [] item.login.kind = "null" -> [raised |-> "TypeError", value |-> None]
      [] item.login.kind = "nopassword" -> [raised |-> "KeyError", value |-> None]
      [] OTHER -> [raised |-> None, value |-> item.login.password]

\* Where control goes when `e` is raised inside main's try block.
Handler(e) == IF e.type = "CalledProcessError" THEN "except" ELSE "finally"

Init ==
    /\ pc = "get_session"
    /\ env \in EnvSessions
    /\ mapping \in Mappings
    /\ existing \in SUBSET Paths
    /\ session = None
    /\ items = <<>>
    /\ i = 0
    /\ exc = NoException
    /\ cmds = <<>>
    /\ stdout = <<>>
    /\ log = <<>>

\* get_session with BW_SESSION set, and main's logging around the call.
GetSessionEnv ==
    /\ pc = "get_session"
    /\ env # None
    /\ session' = env
    /\ log' = log \o <<LogRecord("INFO", "Getting Bitwarden session", <<>>),
                       LogRecord("DEBUG", "Existing Bitwarden session found", <<>>),
                       LogRecord("DEBUG", "Session = %s", <<env>>)>>
    /\ pc' = "sync"
    /\ UNCHANGED <<env, mapping, existing, items, i, exc, cmds, stdout>>

\* GetSessionLogin with the branches on proc_logged.returncode exchanged.
GetSessionLogin_Swapped ==
    /\ pc = "get_session"
    /\ env = None
    /\ \E rcCheck \in ReturnCodes, rcOp \in ReturnCodes, out \in RawOutputs :
        LET operation == IF rcCheck # 0 THEN "unlock" ELSE "login"
        IN  /\ cmds' = cmds \o <<Proc(LoginCheckCmd, rcCheck, ""),
                                 Proc(SessionCmd(operation), rcOp, out)>>
            /\ IF rcOp # 0
               THEN /\ exc' = CalledProcessError(SessionCmd(operation))
                    /\ pc' = Handler(exc')
                    /\ UNCHANGED session
               ELSE /\ session' = out
                    /\ pc' = "sync"
                    /\ UNCHANGED exc
    /\ UNCHANGED <<env, mapping, existing, items, i, stdout, log>>

\* get_session without BW_SESSION: login check, then login or unlock.
GetSessionLogin ==
    /\ pc = "get_session"
    /\ env = None
    /\ \E rcCheck \in ReturnCodes, rcOp \in ReturnCodes, out \in RawOutputs :
        LET operation == IF rcCheck # 0 THEN "login" ELSE "unlock"
            said == IF rcCheck # 0 THEN "Not logged into Bitwarden"
                                   ELSE "Bitwarden vault is locked"
            before == <<LogRecord("INFO", "Getting Bitwarden session", <<>>),
                        LogRecord("DEBUG", said, <<>>)>>
        IN  /\ cmds' = cmds \o <<Proc(LoginCheckCmd, rcCheck, ""),
                                 Proc(SessionCmd(operation), rcOp, out)>>
            /\ IF rcOp # 0
               THEN /\ exc' = CalledProcessError(SessionCmd(operation))
                    /\ pc' = Handler(exc')
                    /\ log' = log \o before
                    /\ UNCHANGED session
               ELSE /\ session' = out
                    /\ pc' = "sync"
                    /\ log' = log \o before
                              \o <<LogRecord("DEBUG", "Session = %s", <<out>>)>>
                    /\ UNCHANGED exc
    /\ UNCHANGED <<env, mapping, existing, items, i, stdout>>

\* Sync run without check=True: a failed sync goes on to the listing.
Sync_Unchecked ==
    /\ pc = "sync"
    /\ \E rc \in ReturnCodes :
        cmds' = Append(cmds, Proc(SyncCmd(session), rc, ""))
    /\ pc' = "list"
    /\ UNCHANGED <<env, mapping, existing, session, items, i, exc, stdout, log>>

\* main's `bw sync --session {session}` with check=True.
Sync ==
    /\ pc = "sync"
    /\ \E rc \in ReturnCodes :
        /\ cmds' = Append(cmds, Proc(SyncCmd(session), rc, ""))
        /\ IF rc # 0
           THEN /\ exc' = CalledProcessError(SyncCmd(session))
                /\ pc' = Handler(exc')
           ELSE /\ pc' = "list"
                /\ UNCHANGED exc
    /\ UNCHANGED <<env, mapping, existing, session, items, i, stdout, log>>

\* folder_items, and main's entry into add_ssh_keys when it returns.
FolderItems ==
    /\ pc = "list"
    /\ \E rc \in ReturnCodes, out \in {MalformedOutput, JsonOutput}, decoded \in Listings :
        LET before == <<LogRecord("INFO", "Getting folder items", <<>>),
                        LogRecord("DEBUG", "Folder ID: %s", <<FOLDER_ID>>)>>
        IN  /\ cmds' = Append(cmds, Proc(ListCmd(FOLDER_ID, session), rc, out))
            /\ IF rc # 0
               THEN /\ exc' = CalledProcessError(ListCmd(FOLDER_ID, session))
                    /\ pc' = Handler(exc')
                    /\ log' = log \o before
                    /\ UNCHANGED <<items, i>>
               ELSE IF out = MalformedOutput
               THEN /\ exc' = Exception("JSONDecodeError")
                    /\ pc' = Handler(exc')
                    /\ log' = log \o before
                    /\ UNCHANGED <<items, i>>
               ELSE /\ items' = [k \in DOMAIN decoded |-> Item(k, decoded[k])]
                    /\ i' = 1
                    /\ pc' = "add"
                    /\ log' = log \o before
                              \o <<LogRecord("INFO", "Attempting to add keys to ssh-agent", <<>>)>>
                    /\ UNCHANGED exc
    /\ UNCHANGED <<env, mapping, existing, session, stdout>>

\* One pass of add_ssh_keys's loop body, for items[i].
AddKey ==
    /\ pc = "add"
    /\ i <= Len(items)
    /\ LET item == items[i]
           got == GetPassphrase(item)
           passphrase == got.value
       IN  IF got.raised # None
           THEN /\ exc' = Exception(got.raised)
                /\ pc' = Handler(exc')
                /\ UNCHANGED <<i, cmds, stdout, log>>
           ELSE IF item.id \notin DOMAIN mapping
           THEN /\ stdout' = Append(stdout, Printed("Path for item %s not found", item.name))
                /\ i' = i + 1
                /\ UNCHANGED <<pc, exc, cmds, log>>
           ELSE IF passphrase = None
           THEN /\ stdout' = Append(stdout, Printed("Passphrase not found for %s", item.name))
                /\ i' = i + 1
                /\ UNCHANGED <<pc, exc, cmds, log>>
           ELSE IF mapping[item.id] \notin existing
           THEN /\ stdout' = Append(stdout,
                                    Printed("Private key at %s does not exist", mapping[item.id]))
                /\ i' = i + 1
                /\ UNCHANGED <<pc, exc, cmds, log>>
           ELSE \E rc \in ReturnCodes :
                /\ cmds' = Append(cmds, Proc(SshAddCmd(passphrase, mapping[item.id]), rc, ""))
                /\ log' = IF rc # 0
                          THEN Append(log, LogRecord("WARNING",
                                                     "Could not add key to the SSH agent", <<>>))
                          ELSE log
                /\ i' = i + 1
                /\ UNCHANGED <<pc, exc, stdout>>
    /\ UNCHANGED <<env, mapping, existing, session, items>>

\* add_ssh_keys's loop is exhausted: the function returns, the try block ends.
AddSshKeysReturn ==
    /\ pc = "add"
    /\ i > Len(items)
    /\ pc' = "finally"
    /\ UNCHANGED <<env, mapping, existing, session, items, i, exc, cmds, stdout, log>>

\* main's `except subprocess.CalledProcessError as e`.
Except ==
    /\ pc = "except"
    /\ log' = log
              \o (IF exc.stderr # None
                  THEN <<LogRecord("ERROR", "%s error: %s", exc.cmd)>>
                  ELSE <<>>)
              \o <<LogRecord("DEBUG", "Error running %s", exc.cmd)>>
    /\ exc' = NoException
    /\ pc' = "finally"
    /\ UNCHANGED <<env, mapping, existing, session, items, i, cmds, stdout>>

\* Finally with the lock moved to the end of the try block: it runs only when
\* add_ssh_keys returned.
Finally_LockAtEndOfTry ==
    /\ pc = "finally"
    /\ IF Truthy(session) /\ i > Len(items)
       THEN \E rc \in ReturnCodes :
            /\ cmds' = Append(cmds, Proc(LockCmd(session), rc, ""))
            /\ exc' = IF rc # 0 THEN CalledProcessError(LockCmd(session)) ELSE exc
       ELSE UNCHANGED <<cmds, exc>>
    /\ pc' = "done"
    /\ UNCHANGED <<env, mapping, existing, session, items, i, stdout, log>>

\* main's `finally`: lock_bitwarden when the session is truthy.
Finally ==
    /\ pc = "finally"
    /\ IF Truthy(session)
       THEN \E rc \in ReturnCodes :
            /\ cmds' = Append(cmds, Proc(LockCmd(session), rc, ""))
            /\ exc' = IF rc # 0 THEN CalledProcessError(LockCmd(session)) ELSE exc
       ELSE UNCHANGED <<cmds, exc>>
    /\ pc' = "done"
    /\ UNCHANGED <<env, mapping, existing, session, items, i, stdout, log>>

Next ==
    \/ GetSessionEnv
    \/ GetSessionLogin
    \/ Sync
    \/ FolderItems
    \/ AddKey
    \/ AddSshKeysReturn
    \/ Except
    \/ Finally

Spec == Init /\ [][Next]_vars

\* ------------------------------------------------- vocabulary of the claims

\* A spawned process is a vault command when its command line starts with the
\* vault client's call; every other spawned process is the key-agent add.
IsVaultCmd(p) == SubSeq(p.argv, 1, Len(BW_SHELL_CALL)) = BW_SHELL_CALL

IsSshAdd(p) == ~IsVaultCmd(p)

\* Which vault operation a process ran ("" for the key-agent add).
VaultOp(p) ==
    IF ~IsVaultCmd(p) THEN ""
    ELSE IF p.argv = LoginCheckCmd THEN "login --check"
    ELSE IF p.argv[3] = "--raw" THEN p.argv[4]
    ELSE p.argv[3]

CmdIdx == 1..Len(cmds)

Range(s) == {s[k] : k \in 1..Len(s)}

OpIdx(ops) == {c \in CmdIdx : VaultOp(cmds[c]) \in ops}

SessionOps == {"login --check", "login", "unlock"}

\* add_ssh_keys was entered with a fetched listing.
Fetched == i >= 1

ItemIdx == 1..Len(items)

HasMapping(k) == items[k].id \in DOMAIN mapping

HasPassphrase(k) ==
    items[k].login.kind = "object" /\ items[k].login.password # None

Importable(k) ==
    HasMapping(k) /\ HasPassphrase(k) /\ mapping[items[k].id] \in existing

ImportAttempts(passphrase, path) ==
    {c \in CmdIdx : cmds[c].argv = SshAddCmd(passphrase, path)}

WasPrinted(line) == \E m \in 1..Len(stdout) : stdout[m] = line

\* The log records main's exception handler writes.
FatalMessages == {"Error running %s", "%s error: %s"}

FatalLogged(argv) ==
    \E m \in 1..Len(log) :
        /\ log[m].level \in {"ERROR", "DEBUG"}
        /\ log[m].msg \in FatalMessages
        /\ log[m].arg = argv

\* The lock command was run exactly once, with main's session, as the last
\* process of the run.
LockedLast ==
    /\ cmds # <<>>
    /\ cmds[Len(cmds)].argv = LockCmd(session)
    /\ OpIdx({"lock"}) = {Len(cmds)}

\* ------------------------------------------------------------------ claims

\* C1 as stated: in every finished run in which get_session returned a token,
\* whatever its value, the lock command was invoked exactly once with that
\* token, after every other command. Refuted by BW_SESSION set to the empty
\* string (or an empty login/unlock output): `if session:` skips the lock.
C1_LockForAnyToken ==
    (pc = "done" /\ session # None) => LockedLast

\* C1 amended: in every finished run in which get_session returned a
\* non-empty token, the lock command was invoked exactly once with that token,
\* as the last command of the run, on every exit path; and no lock command is
\* invoked before the run reaches its end.
C1_LockForNonEmptyToken ==
    /\ (pc = "done" /\ session \notin {None, ""}) => LockedLast
    /\ pc # "done" => OpIdx({"lock"}) = {}

\* C1 witness: a run that ended with an exception raised while importing keys
\* still in flight, and the vault locked.
C1_Witness ==
    /\ pc = "done"
    /\ session = "rawtoken"
    /\ exc.type = "KeyError"
    /\ OpIdx({"sync", "list"}) # {}
    /\ LockedLast

\* C2 as stated: whatever happened to an earlier item, every later item of the
\* fetched list is processed: skipped with its own message or its import
\* attempted. Refuted by an earlier item without a login object or password
\* key: the lookup raises and the loop is abandoned.
C2_LaterItemsProcessed ==
    (pc = "done" /\ Fetched) =>
        \A k \in ItemIdx : k >= 2 =>
            \/ WasPrinted(Printed("Path for item %s not found", items[k].name))
            \/ WasPrinted(Printed("Passphrase not found for %s", items[k].name))
            \/ /\ HasMapping(k)
               /\ WasPrinted(Printed("Private key at %s does not exist",
                                     mapping[items[k].id]))
            \/ /\ HasMapping(k)
               /\ HasPassphrase(k)
               /\ ImportAttempts(items[k].login.password, mapping[items[k].id]) # {}

\* C3 as stated: the key-agent add command is invoked exactly once for every
\* fetched item with a mapping entry, a non-null password and an existing key
\* file, with that item's path and passphrase, and never otherwise: for every
\* (passphrase, path) the number of add commands equals the number of such
\* items. Refuted when an earlier item makes the loop raise.
C3_ImportExactlyOnce ==
    (pc = "done" /\ Fetched) =>
        \A passphrase \in Passphrases, path \in Paths :
            Cardinality(ImportAttempts(passphrase, path)) =
            Cardinality({k \in ItemIdx : /\ Importable(k)
                                         /\ items[k].login.password = passphrase
                                         /\ mapping[items[k].id] = path})

\* C4 as stated: every fetched item without a mapping entry, whatever its
\* login object, gets a "path not found" message naming it, the loop goes on
\* past it, and every add command names the mapped path of some item.
\* Refuted by an unmapped item without a login object.
C4_UnmappedItemReported ==
    (pc = "done" /\ Fetched) =>
        /\ \A k \in ItemIdx : ~HasMapping(k) =>
            /\ WasPrinted(Printed("Path for item %s not found", items[k].name))
            /\ i > k
        /\ \A c \in CmdIdx : IsSshAdd(cmds[c]) =>
            \E k \in ItemIdx :
                HasMapping(k) /\ cmds[c].argv[Len(cmds[c].argv)] = mapping[items[k].id]

\* C5 as stated: every fetched item whose password is null or absent, mapped
\* or not, gets a "passphrase not found" message naming it and the loop goes
\* on past it. Refuted by an item without a password key (the lookup raises)
\* and by an unmapped item with a null password (the message is "path not
\* found").
C5_MissingPassphraseReported ==
    (pc = "done" /\ Fetched) =>
        \A k \in ItemIdx : ~HasPassphrase(k) =>
            /\ WasPrinted(Printed("Passphrase not found for %s", items[k].name))
            /\ i > k

C7_SyncOnceBeforeListing ==
    (session # None /\ pc # "sync") =>
        \E s \in CmdIdx :
            /\ OpIdx({"sync"}) = {s}
            /\ cmds[s].argv = SyncCmd(session)
            /\ \A c \in OpIdx({"list"}) : c > s
            /\ cmds[s].returncode # 0 =>
                /\ OpIdx({"list"}) = {}
                /\ \A c \in CmdIdx : ~IsSshAdd(cmds[c])
                /\ \A c \in CmdIdx : c > s => VaultOp(cmds[c]) = "lock"
                /\ ~Fetched

\* C7 witness: a finished run whose sync failed and which then locked the vault.
C7_Witness ==
    /\ pc = "done"
    /\ \E s \in OpIdx({"sync"}) : cmds[s].returncode # 0
    /\ LockedLast

\* C8 as stated: no spawned process has a vault-supplied passphrase among the
\* words of its command line. Refuted by every key import: the passphrase is
\* formatted into the shell command string.
C8_NoPassphraseInCommandLine ==
    \A c \in CmdIdx : \A k \in ItemIdx :
        HasPassphrase(k) => items[k].login.password \notin Range(cmds[c].argv)

\* C9 as stated: in a finished run every per-item skip and every failed import
\* has a log record at warning severity, and every fatal condition (a failed
\* login, unlock, sync or listing command, or a listing json.loads rejects)
\* has a log record at error or debug severity. Refuted by a malformed
\* listing (the exception is not handled and nothing is logged) and by the
\* skips, which are printed and not logged.
C9_EverythingLogged ==
    pc = "done" =>
        /\ \A k \in ItemIdx : (k < i /\ ~Importable(k)) =>
            \E m \in 1..Len(log) : log[m].level = "WARNING"
        /\ \A c \in CmdIdx : (IsSshAdd(cmds[c]) /\ cmds[c].returncode # 0) =>
            \E m \in 1..Len(log) :
                /\ log[m].level = "WARNING"
                /\ log[m].msg = "Could not add key to the SSH agent"
        /\ \A c \in OpIdx({"login", "unlock", "sync", "list"}) :
            cmds[c].returncode # 0 => FatalLogged(cmds[c].argv)
        /\ \A c \in OpIdx({"list"}) :
            (cmds[c].returncode = 0 /\ cmds[c].stdout = MalformedOutput) =>
                \E m \in 1..Len(log) :
                    /\ log[m].level \in {"ERROR", "DEBUG"}
                    /\ log[m].msg \in FatalMessages

\* C10: get_session decides from the environment and the login check alone.
\* With a token in the environment it returns that token and the run never
\* invokes the login check, login or unlock (and no process at all has been
\* spawned when it returns). Otherwise the first process is the login check,
\* the second is login when the check exited non-zero and unlock when it
\* exited zero, neither is invoked again, and the returned token is that
\* second process's output (none is returned when it exits non-zero).
C10_SessionAcquisition ==
    pc # "get_session" =>
        IF env # None
        THEN /\ session = env
             /\ OpIdx(SessionOps) = {}
             /\ pc = "sync" => cmds = <<>>
        ELSE /\ Len(cmds) >= 2
             /\ cmds[1].argv = LoginCheckCmd
             /\ cmds[2].argv =
                    SessionCmd(IF cmds[1].returncode # 0 THEN "login" ELSE "unlock")
             /\ OpIdx(SessionOps) = {1, 2}
             /\ session = IF cmds[2].returncode = 0 THEN cmds[2].stdout ELSE None

\* C10 witness: the vault was found authenticated, unlock was run and its
\* output is the session.
C10_Witness ==
    /\ pc = "sync"
    /\ env = None
    /\ cmds[1].returncode = 0
    /\ cmds[2].argv = SessionCmd("unlock")
    /\ session = "rawtoken"

====
